---- MODULE Spec2Model ----
(***************************************************************************)
(* A model of ml-on-fhir's FHIRClient (src/src/fhir_client.py) and of the  *)
(* Procedure constructor (src/src/fhir_objects/procedure.py).              *)
(*                                                                         *)
(* One behaviour is one call made on a freshly constructed client: a       *)
(* direct call of _build_url, a direct construction of a Procedure, or one *)
(* of the facade operations.  The FHIR server is the environment: the      *)
(* status code of every GET is chosen when the GET is made, and the Bundle *)
(* behind a URL is chosen the first time that URL answers 200 and is the   *)
(* same ever after.  Strings that the code takes apart (URLs, paths) are   *)
(* sequences of tokens.                                                    *)
(***************************************************************************)
EXTENDS Integers, Sequences, FiniteSets, TLC

VARIABLES
    server_url,   \* FHIRClient.server_url
    request,      \* the GET the operation began with: its URL and how it was sent
    pc,           \* "idle", "collect", "done" (returned) or "raised"
    op,           \* the operation that was called
    args,         \* its arguments
    constructor,  \* the constructor handed to _collect
    server,       \* page URL -> the Bundle the server holds there (NoPage: not yet served)
    stack,        \* the activation records of _collect, outermost first
    gets,         \* how many times _collect has called session.get
    answered,     \* the status codes those calls were answered with
    ret,          \* the value returned to the caller
    exc           \* the exception that reached the caller

vars == <<server_url, request, pc, op, args, constructor, server, stack, gets, answered, ret, exc>>

----------------------------------------------------------------------------
(* Bounds of the model *)

NPages == 3        \* URLs of Bundle pages the server knows
MaxLinks == 2      \* links the server's Bundles carry in all
MaxEntries == 3    \* entries the server's Bundles carry in all
MaxParams == 2     \* query parameters of one direct _build_url call

Pages == 1..NPages
MaxGets == MaxLinks + 1  \* calls of session.get in _collect the model follows

----------------------------------------------------------------------------
(* Values *)

\* Python's None as a returned value, and as a field that holds no string
None == [type |-> "NoneType"]
\* A returned list and a returned str
List(items) == [type |-> "list", items |-> items]
Str(tokens) == [type |-> "str", tokens |-> tokens]
Unset == "None"
NoPage == [resourceType |-> "NoPage"]
NoExc == "none"

ok == 200
StatusCodes == {200, 204, 404}

ResourceTypes == {"Patient", "Observation"}
Constructors == {"Patient", "Condition", "Observation", "Procedure"}

RECURSIVE SeqsUpTo(_, _)
SeqsUpTo(S, n) ==
    IF n = 0 THEN {<<>>}
    ELSE LET shorter == SeqsUpTo(S, n - 1)
         IN  shorter \cup {Append(s, x) : s \in {t \in shorter : Len(t) = n - 1}, x \in S}

Range(s) == {s[i] : i \in DOMAIN s}

----------------------------------------------------------------------------
(* fhir_client.py: the pure helpers *)

\* requests.codes.ok is 200
_check_status(status_code) == status_code = ok

\* Response.raise_for_status raises HTTPError for 4xx and 5xx and returns for
\* every other status code.
raise_for_status(status_code) == 400 <= status_code /\ status_code < 600

\* os.path.join(a, b) on POSIX: an absolute b replaces a, otherwise b is added
\* after one separator.
join(a, b) ==
    IF Len(b) > 0 /\ b[1] = "/" THEN b
    ELSE IF Len(a) = 0 \/ a[Len(a)] = "/" THEN a \o b
    ELSE a \o <<"/">> \o b

\* Python truthiness of a query parameter value, a str: only '' is falsy.
Truthy(v) == v # ""

\* The loop of _build_url over query_params.keys(), in insertion order.
RECURSIVE QueryString(_)
QueryString(query_params) ==
    IF query_params = <<>> THEN <<>>
    ELSE LET p == Head(query_params)
         IN  (IF Truthy(p.value) THEN <<p.name, "=", p.value, "&">> ELSE <<>>)
             \o QueryString(Tail(query_params))

\* FHIRClient._build_url; query_params is the keyword dictionary, a sequence
\* of [name, value] with distinct names.
_build_url(base, path, query_params) ==
    LET base_url == join(base, path)
        marked == IF query_params # <<>> THEN base_url \o <<"?">> ELSE base_url
    IN  marked \o QueryString(query_params)

----------------------------------------------------------------------------
(* fhir_objects: the constructors *)

\* A raw resource as the server sends it: its resourceType tag and its id.
Resource(t, id) == [resourceType |-> t, id |-> id]

\* FHIRBaseObject.__init__(**kwargs): keeps the raw dictionary and the schema
\* it was given.
FHIRBaseObjectInit(cls, kwargs) ==
    [cls |-> cls, _dict |-> kwargs.resource_dict, fhir_resources |-> kwargs.fhir_resources]

\* Procedure.__init__ without its resourceType check.
ProcedureInitUnchecked(kwargs) ==
    [exc |-> NoExc,
     obj |-> FHIRBaseObjectInit("Procedure",
               [resource_dict |-> kwargs.resource_dict,
                fhir_client |-> kwargs.fhir_client,
                fhir_resources |-> "procedure_resources"])]

\* Procedure.__init__(**kwargs): the outcome of the constructor call, the
\* exception it raises (NoExc: none) and the object it leaves.
ProcedureInit(kwargs) ==
    LET resource_dict == kwargs.resource_dict
    IN  IF resource_dict.resourceType # "Procedure"
        THEN [exc |-> "ValueError", obj |-> None]
        ELSE [exc |-> NoExc,
              obj |-> FHIRBaseObjectInit("Procedure",
                        [resource_dict |-> resource_dict,
                         fhir_client |-> kwargs.fhir_client,
                         fhir_resources |-> "procedure_resources"])]

\* Patient, Condition and Observation: the same check against their own name.
TypedInit(cls, kwargs) ==
    LET resource_dict == kwargs.resource_dict
    IN  IF resource_dict.resourceType # cls
        THEN [exc |-> "ValueError", obj |-> None]
        ELSE [exc |-> NoExc,
              obj |-> FHIRBaseObjectInit(cls,
                        [resource_dict |-> resource_dict,
                         fhir_client |-> kwargs.fhir_client,
                         fhir_resources |-> "resources"])]

\* constructor(resource_dict=d['resource'], fhir_client=self)
Construct(cls, resource_dict) ==
    LET kwargs == [resource_dict |-> resource_dict, fhir_client |-> "self"]
    IN  IF cls = "Procedure" THEN ProcedureInit(kwargs) ELSE TypedInit(cls, kwargs)

----------------------------------------------------------------------------
(* The server: Bundles *)

\* The links a Bundle at URL q can carry: its own URL as "self", any page as "next".
Links(q) == {[relation |-> "self", url |-> q]}
            \cup {[relation |-> "next", url |-> r] : r \in Pages}

\* The entries of the Bundle at URL q whose resources have the types ts, in order.
Entries(q, ts) == [i \in 1..Len(ts) |-> [resource |-> Resource(ts[i], <<q, i>>)]]

\* The pages the server has served so far.
Served == {q \in Pages : server[q] # NoPage}

RECURSIVE Sum(_, _)
Sum(f, S) == IF S = {} THEN 0
             ELSE LET x == CHOOSE y \in S : TRUE IN f[x] + Sum(f, S \ {x})

\* How many links and how many entries the served pages carry in all.
LinksServed ==
    Sum([q \in Pages |-> IF "link" \in DOMAIN server[q] THEN Len(server[q].link) ELSE 0], Served)
EntriesServed ==
    Sum([q \in Pages |-> IF "entry" \in DOMAIN server[q] THEN Len(server[q].entry) ELSE 0], Served)

\* The URLs the served pages name in their 'next' links, and the first page's.
Mentioned ==
    {1} \cup {r \in Pages : \E q \in Served :
                /\ "link" \in DOMAIN server[q]
                /\ [relation |-> "next", url |-> r] \in Range(server[q].link)}

Max(S) == CHOOSE x \in S : \A y \in S : y <= x

\* URLs are opaque to the client, so the pages are numbered in the order in
\* which the server first names them: a 'next' link names a URL already named
\* or the first URL not named yet.  m is the largest URL named before l.
RECURSIVE InOrder(_, _)
InOrder(l, m) ==
    IF l = <<>> THEN TRUE
    ELSE IF Head(l).relation = "next"
    THEN Head(l).url <= m + 1 /\ InOrder(Tail(l), IF Head(l).url > m THEN Head(l).url ELSE m)
    ELSE InOrder(Tail(l), m)

\* Every Bundle the server can hold at URL q; 'link' and 'entry' are optional
\* keys.  The server holds at most MaxLinks links and MaxEntries entries over
\* all its pages.
Bundles(q) ==
    LET ls == {l \in SeqsUpTo(Links(q), MaxLinks - LinksServed) : InOrder(l, Max(Mentioned))}
        es == {Entries(q, ts) : ts \in SeqsUpTo(ResourceTypes, MaxEntries - EntriesServed)}
    IN  {[resourceType |-> "Bundle", link |-> l, entry |-> e] : l \in ls, e \in es}
        \cup {[resourceType |-> "Bundle", link |-> l] : l \in ls}
        \cup {[resourceType |-> "Bundle", entry |-> e] : e \in es}
        \cup {[resourceType |-> "Bundle"]}

\* What a GET of URL q that answers 200 can carry as r.json(): the Bundle the
\* server holds at q, any Bundle when q is served for the first time.
Bodies(q) == IF server[q] = NoPage THEN Bundles(q) ELSE {server[q]}

----------------------------------------------------------------------------
(* fhir_client.py: _collect *)

\* One activation of _collect: result_json (the URL of the page it was given),
\* the position of the for loop in result_json['link'], and result.
Frame(q) == [result_json |-> q, i |-> 1, result |-> <<>>]

Top == stack[Len(stack)]
TopJson == server[Top.result_json]

\* Lines 91-93 without the resourceType condition of the comprehension.
OwnOutcomesUnfiltered(result_json, cls) ==
    IF "entry" \in DOMAIN result_json
    THEN [k \in 1..Len(result_json.entry) |-> Construct(cls, result_json.entry[k].resource)]
    ELSE <<>>

\* Lines 91-93: the objects built from the entries of result_json whose
\* resourceType is the constructor's name, as constructor outcomes.
OwnOutcomes(result_json, cls) ==
    IF "entry" \in DOMAIN result_json
    THEN LET matching == SelectSeq(result_json.entry,
                                   LAMBDA d : d.resource.resourceType = cls)
         IN  [k \in 1..Len(matching) |-> Construct(cls, matching[k].resource)]
    ELSE <<>>

\* A loop that stays on the link it has just handled.
AdvanceStuck(frames) == frames

\* Line 82, the for loop: the innermost activation moves on to its next link.
Advance(frames) == [frames EXCEPT ![Len(frames)].i = @ + 1]

\* Line 92 with = for +=: the page's own objects replace what result holds.
AccumulateOverwrite(result, own) == own

\* Line 92 with the operands exchanged: the page's own objects go first.
AccumulateOwnFirst(result, own) == own \o result

\* Line 92, result += [...]: the page's own objects go after what result holds.
Accumulate(result, own) == result \o own

\* The call is over: it returned value.
Returns(value) ==
    /\ pc' = "done"
    /\ ret' = value
    /\ exc' = NoExc
    /\ stack' = <<>>

\* The call is over: exception e reached the caller, who gets no value.
Raises(e) ==
    /\ pc' = "raised"
    /\ ret' = None
    /\ exc' = e
    /\ stack' = <<>>

\* Line 82 on a result_json without the key 'link': result_json['link'] raises.
CollectKeyError ==
    /\ pc = "collect"
    /\ "link" \notin DOMAIN TopJson
    /\ Raises("KeyError")
    /\ UNCHANGED <<server_url, request, op, args, constructor, server, gets, answered>>

\* Lines 83, 89-90: a link whose relation is not 'next' is passed over.
CollectSkipLink ==
    /\ pc = "collect"
    /\ "link" \in DOMAIN TopJson
    /\ Top.i <= Len(TopJson.link)
    /\ TopJson.link[Top.i].relation # "next"
    /\ stack' = Advance(stack)
    /\ UNCHANGED <<server_url, request, pc, op, args, constructor, server, gets, answered, ret, exc>>

\* Lines 83-88: a 'next' link is fetched; on 200 _collect is called on the
\* page, otherwise raise_for_status() is called and, when that returns, the
\* loop goes on.
CollectFollowNext ==
    /\ pc = "collect"
    /\ "link" \in DOMAIN TopJson
    /\ Top.i <= Len(TopJson.link)
    /\ TopJson.link[Top.i].relation = "next"
    /\ gets < MaxGets
    /\ LET q == TopJson.link[Top.i].url
       IN  /\ gets' = gets + 1
           /\ \E status_code \in StatusCodes :
                /\ answered' = answered \cup {status_code}
                /\ IF _check_status(status_code)
                   THEN /\ \E body \in Bodies(q) : server' = [server EXCEPT ![q] = body]
                        /\ stack' = Append(stack, Frame(q))
                        /\ UNCHANGED <<pc, ret, exc>>
                   ELSE IF raise_for_status(status_code)
                   THEN /\ Raises("HTTPError")
                        /\ UNCHANGED server
                   ELSE /\ stack' = Advance(stack)
                        /\ UNCHANGED <<pc, ret, exc, server>>
    /\ UNCHANGED <<server_url, request, op, args, constructor>>

\* Lines 91-94, and line 86 in the caller: the loop is over, the page's own
\* matching entries are constructed and added to result, and result is
\* returned: to the facade operation, or to the activation that made the
\* call, which assigns it to its own result and goes on with its loop.
CollectReturn ==
    /\ pc = "collect"
    /\ "link" \in DOMAIN TopJson
    /\ Top.i > Len(TopJson.link)
    /\ LET outcomes == OwnOutcomes(TopJson, constructor)
           failed == {k \in DOMAIN outcomes : outcomes[k].exc # NoExc}
           result == Accumulate(Top.result, [k \in DOMAIN outcomes |-> outcomes[k].obj])
           n == Len(stack)
       IN  IF failed # {}
           THEN Raises(outcomes[CHOOSE k \in failed : \A j \in failed : k <= j].exc)
           ELSE IF n = 1
           THEN Returns(List(result))
           ELSE /\ stack' = Advance([SubSeq(stack, 1, n - 1) EXCEPT ![n - 1].result = result])
                /\ UNCHANGED <<pc, ret, exc>>
    /\ UNCHANGED <<server_url, request, op, args, constructor, server, gets, answered>>

----------------------------------------------------------------------------
(* fhir_client.py: the operations *)

\* FHIRClient._get: the URL is built and sent through the session when one
\* is given, through requests.get otherwise.
_get(path, session, query_params, status_code) ==
    [url |-> _build_url(server_url, path, query_params),
     via |-> IF session # Unset THEN "session.get" ELSE "requests.get",
     status_code |-> status_code]

NoRequest == [url |-> <<>>, via |-> Unset, status_code |-> 0]

CollectOps == {"get_all_patients", "get_all_conditions", "get_all_observations",
               "get_all_procedures", "get_patients_by_procedure_code",
               "get_patients_by_procedure_text", "get_patients_by_condition_code",
               "get_patients_by_condition_text", "get_observation_by_patient"}

ArgValues == {"x"}

\* The arguments a facade operation is called with.
OpArgs(o) ==
    IF o \in {"get_patients_by_procedure_code", "get_patients_by_condition_code"}
    THEN {[system |-> "sct", code |-> c] : c \in ArgValues}
    ELSE IF o \in {"get_patients_by_procedure_text", "get_patients_by_condition_text"}
    THEN {[text |-> t] : t \in ArgValues}
    ELSE IF o = "get_observation_by_patient"
    THEN {[patient_id |-> i] : i \in ArgValues}
    ELSE {<<>>}

\* The path each facade operation queries.
OpPath(o) ==
    CASE o \in {"get_all_patients", "get_patients_by_procedure_code"} -> <<"Patient">>
      [] o \in {"get_all_conditions", "get_patients_by_condition_code",
                "get_patients_by_condition_text"} -> <<"Condition">>
      [] o \in {"get_all_observations", "get_observation_by_patient"} -> <<"Observation">>
      [] o \in {"get_all_procedures", "get_patients_by_procedure_text"} -> <<"Procedure">>

\* The session each facade operation hands to _get.
OpSession(o) == IF o = "get_patients_by_condition_code" THEN Unset ELSE "self.session"

\* The query parameters each facade operation hands to _get.
OpParams(o, a) ==
    CASE o = "get_patients_by_procedure_code" ->
            <<[name |-> "_has:Procedure:patient:code", value |-> a.system \o "|" \o a.code]>>
      [] o = "get_patients_by_condition_code" ->
            <<[name |-> "_has:Condition:patient:code", value |-> a.system \o "|" \o a.code]>>
      [] o = "get_patients_by_procedure_text" ->
            <<[name |-> "code:text", value |-> a.text],
              [name |-> "_include", value |-> "Procedure:patient"]>>
      [] o = "get_patients_by_condition_text" ->
            <<[name |-> "code:text", value |-> a.text],
              [name |-> "_include", value |-> "Condition:patient"]>>
      [] o = "get_observation_by_patient" ->
            <<[name |-> "patient", value |-> a.patient_id]>>
      [] OTHER -> <<>>

\* The constructor each facade operation hands to _collect.
OpConstructor(o) ==
    CASE o = "get_all_conditions" -> "Condition"
      [] o \in {"get_all_observations", "get_observation_by_patient"} -> "Observation"
      [] o = "get_all_procedures" -> "Procedure"
      [] OTHER -> "Patient"

\* get_capability_statement
GetCapabilityStatement ==
    /\ pc = "idle"
    /\ op' = "get_capability_statement"
    /\ args' = <<>>
    /\ \E status_code \in StatusCodes :
         /\ request' = _get(<<"metadata">>, Unset, <<>>, status_code)
         /\ IF _check_status(status_code)
            THEN Returns([resourceType |-> "CapabilityStatement"])
            ELSE IF raise_for_status(status_code)
            THEN Raises("HTTPError")
            ELSE Returns(None)
    /\ UNCHANGED <<server_url, constructor, server, gets, answered>>

\* get_all_patients, get_all_conditions, get_all_observations,
\* get_all_procedures, get_patients_by_*_code, get_patients_by_*_text and
\* get_observation_by_patient: the first GET, then _collect on its Bundle.
Facade(o) ==
    /\ pc = "idle"
    /\ op' = o
    /\ \E a \in OpArgs(o), status_code \in StatusCodes :
         /\ args' = a
         /\ request' = _get(OpPath(o), OpSession(o), OpParams(o, a), status_code)
         /\ IF _check_status(status_code)
            THEN /\ \E body \in Bodies(1) : server' = [server EXCEPT ![1] = body]
                 /\ constructor' = OpConstructor(o)
                 /\ stack' = <<Frame(1)>>
                 /\ pc' = "collect"
                 /\ UNCHANGED <<ret, exc>>
            ELSE IF raise_for_status(status_code)
            THEN /\ Raises("HTTPError")
                 /\ UNCHANGED <<constructor, server>>
            ELSE /\ Returns(None)
                 /\ UNCHANGED <<constructor, server>>
    /\ UNCHANGED <<server_url, gets, answered>>

\* The inputs of a direct _build_url call.
UrlPaths == {<<"Patient">>, <<"/", "Patient">>, <<>>}
ParamNames == {"_count", "patient", "code:text"}
ParamValues == {"", "5", "a|b"}

Distinct(s) == \A i, j \in DOMAIN s : i # j => s[i] # s[j]

QueryParams ==
    {[k \in DOMAIN ns |-> [name |-> ns[k], value |-> vs[k]]] :
        <<ns, vs>> \in {nv \in SeqsUpTo(ParamNames, MaxParams) \X SeqsUpTo(ParamValues, MaxParams) :
                          Len(nv[1]) = Len(nv[2]) /\ Distinct(nv[1])}}

\* A direct call of _build_url(path, **query_params).
BuildUrl ==
    /\ pc = "idle"
    /\ op' = "_build_url"
    /\ \E path \in UrlPaths, query_params \in QueryParams :
         /\ args' = [path |-> path, query_params |-> query_params]
         /\ Returns(Str(_build_url(server_url, path, query_params)))
    /\ UNCHANGED <<server_url, request, constructor, server, gets, answered>>

\* The tags a raw dictionary handed to Procedure(...) can carry.
Tags == Constructors \cup {"Bundle"}

\* A direct construction Procedure(resource_dict=d, fhir_client=c).
NewProcedure ==
    /\ pc = "idle"
    /\ op' = "Procedure"
    /\ \E t \in Tags, id \in Pages :
         LET kwargs == [resource_dict |-> Resource(t, <<id, 1>>), fhir_client |-> "self"]
             outcome == ProcedureInit(kwargs)
         IN  /\ args' = kwargs
             /\ IF outcome.exc # NoExc THEN Raises(outcome.exc) ELSE Returns(outcome.obj)
    /\ UNCHANGED <<server_url, request, constructor, server, gets, answered>>

----------------------------------------------------------------------------
(* The specification *)

BaseUrls == {<<"http://localhost:8080", "/", "baseR4">>}

\* FHIRClient.__init__(service_base_url), and a server that has served nothing.
Init ==
    /\ server_url \in BaseUrls
    /\ request = NoRequest
    /\ pc = "idle"
    /\ op = Unset
    /\ args = <<>>
    /\ constructor = Unset
    /\ server = [q \in Pages |-> NoPage]
    /\ stack = <<>>
    /\ gets = 0
    /\ answered = {}
    /\ ret = None
    /\ exc = NoExc

Next ==
    \/ BuildUrl
    \/ NewProcedure
    \/ GetCapabilityStatement
    \/ \E o \in CollectOps : Facade(o)
    \/ CollectKeyError
    \/ CollectSkipLink
    \/ CollectFollowNext
    \/ CollectReturn

Spec == Init /\ [][Next]_vars

\* One call of get_all_patients, followed to its end: the program is
\* sequential and never stops of its own accord before the call is over.
PatientsNext ==
    \/ Facade("get_all_patients")
    \/ CollectKeyError
    \/ CollectSkipLink
    \/ CollectFollowNext
    \/ CollectReturn

FairSpec == Init /\ [][PatientsNext]_vars /\ WF_vars(PatientsNext)

----------------------------------------------------------------------------
(* What the claims speak of *)

FacadeOps == CollectOps \cup {"get_capability_statement"}
CollectCall == op \in CollectOps
Ended == pc \in {"done", "raised"}
ReturnedList == pc = "done" /\ ret.type = "list"

\* The raw dictionaries the returned objects were built from, in order.
ItemDicts == [k \in 1..Len(ret.items) |-> ret.items[k]._dict]

HasLinks(q) == "link" \in DOMAIN server[q]

\* The URLs of the 'next' links of served page q, in order.
NextUrls(q) ==
    IF HasLinks(q)
    THEN LET nexts == SelectSeq(server[q].link, LAMBDA l : l.relation = "next")
         IN  [k \in 1..Len(nexts) |-> nexts[k].url]
    ELSE <<>>

\* The resources of served page q whose resourceType is the constructor's name.
OwnMatching(q) ==
    IF "entry" \in DOMAIN server[q]
    THEN LET m == SelectSeq(server[q].entry, LAMBDA d : d.resource.resourceType = constructor)
         IN  [k \in 1..Len(m) |-> m[k].resource]
    ELSE <<>>

MatchingServed == UNION {Range(OwnMatching(q)) : q \in Served}

\* Every served page has a 'link' array with at most one 'next' link.
IsChain == \A q \in Served : HasLinks(q) /\ Len(NextUrls(q)) <= 1

\* Every GET _collect made was answered 200.
All200 == answered \subseteq {ok}

\* The pages reached from the pages of S over 'next' links of served pages.
RECURSIVE Reach(_, _)
Reach(S, n) ==
    LET step == UNION {Range(NextUrls(q)) : q \in S \cap Served}
    IN  IF n = 0 THEN step ELSE step \cup Reach(step, n - 1)

Cyclic == \E q \in Served : q \in Reach({q}, NPages)

NextLinksServed == Sum([q \in Pages |-> Len(NextUrls(q))], Served)

\* A chain's matching resources, the deepest page first.
RECURSIVE ChainOrder(_, _)
ChainOrder(q, fuel) ==
    IF fuel = 0 THEN <<>>
    ELSE (IF NextUrls(q) # <<>> /\ NextUrls(q)[1] \in Served
          THEN ChainOrder(NextUrls(q)[1], fuel - 1) ELSE <<>>) \o OwnMatching(q)

Types(q) == [k \in 1..Len(server[q].entry) |-> server[q].entry[k].resource.resourceType]

----------------------------------------------------------------------------
(* The claims *)

\* C1: when the Bundle pages form a chain (every page has a 'link' array with
\* at most one 'next' link) and every GET is answered 200, the facade call
\* returns a list that holds every type-matching entry of every page of the
\* chain, each exactly once.
C1_PageUnion ==
    (CollectCall /\ Ended /\ request.status_code = ok /\ IsChain /\ All200)
        => /\ ReturnedList
           /\ Range(ItemDicts) = MatchingServed
           /\ Len(ret.items) = Cardinality(MatchingServed)

\* get_all_patients() over page 1 with two Patient entries and a 'next' link
\* to page 2 with one Patient entry and no 'next' link returned 3 objects.
C1_Witness ==
    /\ op = "get_all_patients" /\ ReturnedList /\ All200
    /\ Served = {1, 2}
    /\ NextUrls(1) = <<2>> /\ HasLinks(2) /\ NextUrls(2) = <<>>
    /\ "entry" \in DOMAIN server[1] /\ Types(1) = <<"Patient", "Patient">>
    /\ "entry" \in DOMAIN server[2] /\ Types(2) = <<"Patient">>
    /\ Len(ret.items) = 3

\* C2: when the GET of a 'next' page is answered with a status code other
\* than 200, the facade call ends by raising, never by returning.
C2_AllOrNothing ==
    (CollectCall /\ Ended /\ ~All200) => pc = "raised"

\* C3: when the first GET of a facade operation is answered with a status
\* code other than 200, the call raises, returns nothing and never invokes
\* _collect.
C3_FirstGetNot200 ==
    (op \in FacadeOps /\ request.status_code # ok)
        => /\ pc = "raised"
           /\ ret = None
           /\ stack = <<>> /\ gets = 0 /\ Served = {}

\* C4: every object a facade call returns was built, by the constructor
\* handed to _collect, from an entry whose resourceType is that
\* constructor's name; entries of other types are left out without raising.
C4_TypeFilter ==
    CollectCall
        => /\ exc # "ValueError"
           /\ ReturnedList =>
                \A k \in 1..Len(ret.items) :
                    /\ ret.items[k].cls = constructor
                    /\ ret.items[k]._dict.resourceType = constructor

\* get_all_patients() returned Patient objects from pages that also hold an
\* Observation entry.
C4_Witness ==
    /\ op = "get_all_patients" /\ ReturnedList
    /\ Len(ret.items) >= 1
    /\ \E q \in Served : "entry" \in DOMAIN server[q]
                         /\ "Observation" \in Range(Types(q))

\* C5: Procedure(resource_dict=d) raises ValueError and leaves no object when
\* d's resourceType is not "Procedure"; otherwise it returns an object
\* initialised from d with the procedure schema.
C5_ProcedureTag ==
    (op = "Procedure" /\ Ended)
        => IF args.resource_dict.resourceType # "Procedure"
           THEN pc = "raised" /\ exc = "ValueError" /\ ret = None
           ELSE /\ pc = "done" /\ exc = NoExc
                /\ ret = [cls |-> "Procedure", _dict |-> args.resource_dict,
                          fhir_resources |-> "procedure_resources"]

\* Procedure was called with a Patient dictionary and raised.
C5_Witness ==
    /\ op = "Procedure" /\ pc = "raised"
    /\ args.resource_dict.resourceType = "Patient"

\* The query parameters whose value is not empty.
NonEmpty(query_params) == SelectSeq(query_params, LAMBDA p : p.value # "")

\* C6: _build_url leaves parameters with an empty value out entirely: the
\* URL is the one built from the mapping without them, and it is the joined
\* base URL and path, with no '?', when no parameter has a value.
C6_FalsyOmitted ==
    (op = "_build_url" /\ pc = "done")
        => /\ ret.tokens = _build_url(server_url, args.path, NonEmpty(args.query_params))
           /\ NonEmpty(args.query_params) = <<>> => ret.tokens = join(server_url, args.path)

\* C7: a first page without the key 'link' is a terminal page: the call
\* returns that page's matching entries, without raising and without a GET.
C7_MissingLinkIsTerminal ==
    (CollectCall /\ Ended /\ request.status_code = ok /\ ~HasLinks(1))
        => /\ ReturnedList
           /\ gets = 0
           /\ ItemDicts = OwnMatching(1)

\* C8: with every GET answered 200, whatever the number of 'next' links of a
\* page, the returned list holds the matching entries of every page that
\* was collected.
C8_EveryNextAccumulates ==
    (CollectCall /\ ReturnedList /\ All200) => MatchingServed \subseteq Range(ItemDicts)

\* C9: for a chain of pages with every GET answered 200, the returned list
\* is the matching entries of the last page, then of the page before it, and
\* so on up to the first page, each page's entries in the page's order.
C9_DeeperFirst ==
    (CollectCall /\ ReturnedList /\ IsChain /\ All200) => ItemDicts = ChainOrder(1, NPages)

\* A chain of three pages with one matching entry each was returned last
\* page first.
C9_Witness ==
    /\ CollectCall /\ ReturnedList /\ IsChain /\ All200
    /\ Served = {1, 2, 3}
    /\ Len(ret.items) = 3
    /\ ItemDicts[1].id = <<3, 1>> /\ ItemDicts[2].id = <<2, 1>> /\ ItemDicts[3].id = <<1, 1>>

\* C10: a call over an acyclic chain of pages always ends, and when it
\* returns it has made exactly one GET for each 'next' link of the pages it
\* collected; only pages that are no chain, or a cyclic chain, can keep
\* _collect from ending.
C10_Terminates ==
    <>(~IsChain \/ Cyclic \/ pc = "raised" \/ (pc = "done" /\ gets = NextLinksServed))

\* A chain of three pages was collected with two GETs.
C10_Witness ==
    /\ CollectCall /\ pc = "done" /\ IsChain /\ ~Cyclic
    /\ Served = {1, 2, 3} /\ gets = 2

====
